---- MODULE Spec2Model ----
(***************************************************************************)
(* Model of the meeting-slot discovery and scoring engine of calendar-mcp  *)
(* (src/calendar_mcp/calendar_client.py): the event classifier, the        *)
(* free-interval finder, the slot scorer, the deep-work slot extractor and *)
(* the two-tier planner find_meeting_times, fed by list_events.            *)
(*                                                                         *)
(* Times are minutes since Monday 00:00 of a reference week, all in one    *)
(* UTC offset.  A summary or pattern is a sequence of one-character        *)
(* strings.  A dictionary is a function whose DOMAIN is its set of keys,   *)
(* so that dict.get(key, default) reads a key that may be missing.         *)
(***************************************************************************)
EXTENDS Integers, Sequences, FiniteSets, TLC

VARIABLES
    pc,                 \* position of find_meeting_times
    config,             \* self._config, loaded once by __init__
    request,            \* the arguments of find_meeting_times
    events,             \* result['events'] of list_events
    meeting_events,     \* the three buckets of the partition loop
    deep_work_events,
    never_avail_events,
    free_slots,         \* the slots _find_free_slots returned
    suggestions,        \* the suggestions list as it is built
    locals,             \* names of the conditionally bound local variables
    deep_work_slots,    \* the slots _find_deep_work_slots returned
    result,             \* the dictionary find_meeting_times returned
    cl_event,           \* _classify_block called alone: its argument
    cl_label,           \*   and the label it returned
    ff_pc,              \* _find_free_slots called alone: its position,
    ff_req,             \*   its arguments,
    ff_sorted,          \*   sorted_events,
    ff_i,               \*   the number of events walked,
    ff_st,              \*   current_time and free_slots
    errors,             \* result.get('errors', []) of list_events
    sc_args,            \* _score_slot called alone: its arguments
    sc_ret,             \*   and what it returned
    dw_args,            \* _find_deep_work_slots called alone: its arguments
    dw_ret,             \*   and what it returned
    calls,              \* two invocations of find_meeting_times on one client
    accounts_file,      \* auth.py: ACCOUNTS_CONFIG_FILE on disk
    token_files,        \*   the files present in TOKENS_DIR
    acct_call           \*   the last account call and what it returned

planner_vars == <<pc, request, events, meeting_events, deep_work_events,
                  never_avail_events, free_slots, suggestions, locals,
                  deep_work_slots, result, errors>>

classifier_vars == <<cl_event, cl_label>>

finder_vars == <<ff_pc, ff_req, ff_sorted, ff_i, ff_st>>

scorer_vars == <<sc_args, sc_ret>>

extractor_vars == <<dw_args, dw_ret>>

accounts_vars == <<accounts_file, token_files, acct_call>>

other_vars == <<scorer_vars, extractor_vars, calls, accounts_vars>>

vars == <<config, planner_vars, classifier_vars, finder_vars, other_vars>>

-----------------------------------------------------------------------------
(* Bounds of the model.                                                    *)

MaxEvents == 2

MaxSuggestions == 2

MaxBusy == 3

MaxTick == 4

-----------------------------------------------------------------------------
(* Python helpers.                                                         *)

\* dict.get(key, default)
Get(d, k, default) == IF k \in DOMAIN d THEN d[k] ELSE default

\* list[:n] for an integer n of either sign
Slice(s, n) ==
    IF n >= 0
    THEN SubSeq(s, 1, IF n < Len(s) THEN n ELSE Len(s))
    ELSE SubSeq(s, 1, Len(s) + n)

Abs(x) == IF x < 0 THEN 0 - x ELSE x

\* str.lower() on the letters the model uses
LowerCase ==
    [A |-> "a", B |-> "b", C |-> "c", D |-> "d", E |-> "e", F |-> "f",
     H |-> "h", L |-> "l", N |-> "n", O |-> "o", S |-> "s", U |-> "u",
     Y |-> "y"]

LowerChar(c) == IF c \in DOMAIN LowerCase THEN LowerCase[c] ELSE c

Lower(s) == [i \in 1..Len(s) |-> LowerChar(s[i])]

\* the substring test `p in s`
Contains(p, s) ==
    \E i \in 0..(Len(s) - Len(p)) : \A j \in 1..Len(p) : s[i + j] = p[j]

-----------------------------------------------------------------------------
(* Dates: datetime.strftime('%A') and datetime.hour.                       *)

DayNames ==
    <<"Monday", "Tuesday", "Wednesday", "Thursday", "Friday", "Saturday",
      "Sunday">>

DayName(t) == DayNames[((t \div 1440) % 7) + 1]

Hour(t) == (t \div 60) % 24

\* f"{day_name}-PM"
PMKey(day) ==
    CASE day = "Monday" -> "Monday-PM"
      [] day = "Tuesday" -> "Tuesday-PM"
      [] day = "Wednesday" -> "Wednesday-PM"
      [] day = "Thursday" -> "Thursday-PM"
      [] day = "Friday" -> "Friday-PM"
      [] day = "Saturday" -> "Saturday-PM"
      [] day = "Sunday" -> "Sunday-PM"

-----------------------------------------------------------------------------
(* Strings of the model, spelled as sequences of characters.               *)

sFlexible == <<"f", "l", "e", "x", "i", "b", "l", "e">>
sOptional == <<"o", "p", "t", "i", "o", "n", "a", "l">>
sBuffer == <<"b", "u", "f", "f", "e", "r">>
sHold == <<"h", "o", "l", "d">>
sDeepWork == <<"d", "e", "e", "p", " ", "w", "o", "r", "k">>
sFocus == <<"f", "o", "c", "u", "s">>
sBlocked == <<"b", "l", "o", "c", "k", "e", "d">>
sWriting == <<"w", "r", "i", "t", "i", "n", "g">>
sResearch == <<"r", "e", "s", "e", "a", "r", "c", "h">>
sReading == <<"r", "e", "a", "d", "i", "n", "g">>
sLUNCH == <<"L", "U", "N", "C", "H">>
sSync == <<"S", "y", "n", "c">>
sHoldCap == <<"H", "o", "l", "d">>
sFOCUS == <<"F", "O", "C", "U", "S">>
sLunch == <<"L", "u", "n", "c", "h">>
sLunchHold == <<"L", "u", "n", "c", "h", " ", "h", "o", "l", "d">>
sFocusLunch == <<"F", "o", "c", "u", "s", " ", "l", "u", "n", "c", "h">>
sHoldFocus == <<"H", "o", "l", "d", " ", "f", "o", "c", "u", "s">>

-----------------------------------------------------------------------------
(* Event Classifier.                                                       *)

EmptyDict == [k \in {} |-> 0]

\* no default pattern: a missing key read as the empty list
NoDefaultPatterns == <<>>

DefaultFlexiblePatterns == <<sFlexible, sOptional, sBuffer, sHold>>

DefaultDeepWorkPatterns ==
    <<sDeepWork, sFocus, sBlocked, sWriting, sResearch, sReading>>

\* any(pattern.lower() in summary for pattern in patterns)
AnyPatternIn(patterns, summary) ==
    \E i \in 1..Len(patterns) : Contains(Lower(patterns[i]), summary)

\* the classifier with the deep-work patterns scanned before the type tags
\* and the flexible patterns
ClassifyBlockDeepFirst(cfg, event) ==
    LET summary == Lower(Get(event, "summary", <<>>))
        event_type == Get(event, "eventType", "default")
        prefs == Get(cfg, "preferences", EmptyDict)
        flexible_patterns ==
            Get(prefs, "flexibleBlockPatterns", DefaultFlexiblePatterns)
        deep_work_patterns ==
            Get(prefs, "deepWorkPatterns", DefaultDeepWorkPatterns)
    IN  IF AnyPatternIn(deep_work_patterns, summary) THEN "deep-work"
        ELSE IF AnyPatternIn(flexible_patterns, summary) THEN "flexible"
        ELSE IF event_type = "focusTime" THEN "deep-work"
        ELSE IF event_type = "outOfOffice" THEN "out-of-office"
        ELSE IF Len(Get(event, "attendees", <<>>)) > 0 THEN "meeting"
        ELSE "unknown"

\* _classify_block(event) under the configuration cfg
ClassifyBlock(cfg, event) ==
    LET summary == Lower(Get(event, "summary", <<>>))
        event_type == Get(event, "eventType", "default")
        prefs == Get(cfg, "preferences", EmptyDict)
        flexible_patterns ==
            Get(prefs, "flexibleBlockPatterns", DefaultFlexiblePatterns)
        deep_work_patterns ==
            Get(prefs, "deepWorkPatterns", DefaultDeepWorkPatterns)
    IN  IF event_type = "focusTime" THEN "deep-work"
        ELSE IF event_type = "outOfOffice" THEN "out-of-office"
        ELSE IF AnyPatternIn(flexible_patterns, summary) THEN "flexible"
        ELSE IF AnyPatternIn(deep_work_patterns, summary) THEN "deep-work"
        ELSE IF Len(Get(event, "attendees", <<>>)) > 0 THEN "meeting"
        ELSE "unknown"

\* prefs of find_meeting_times and _score_slot
MeetingPrefs(cfg) ==
    Get(Get(cfg, "preferences", EmptyDict), "meetingPreferences", EmptyDict)

\* is_never_available(event), the closure of find_meeting_times
IsNeverAvailable(cfg, event) ==
    AnyPatternIn(Get(MeetingPrefs(cfg), "neverAvailablePatterns", <<>>),
                 Lower(Get(event, "summary", <<>>)))

-----------------------------------------------------------------------------
(* list_events: the events of the window, as the planner receives them.    *)

\* An ISO-8601 string is [iso |-> "dateTime" or "date", t |-> minutes].
\* Python's string order on two of them: a date string is a proper prefix
\* of every dateTime string of that day.
IsoLessEq(a, b) ==
    \/ a.t < b.t
    \/ a.t = b.t /\ (a.iso = "date" \/ b.iso = "dateTime")

\* datetime.fromisoformat(s.replace('Z', '+00:00')): a date-only string
\* parses to a naive datetime, a dateTime string to an aware one.
FromIso(s) == [t |-> s.t, aware |-> s.iso = "dateTime"]

\* _is_not_declined(event)
RECURSIVE SelfNotDeclined(_)
SelfNotDeclined(attendees) ==
    IF attendees = <<>> THEN TRUE
    ELSE IF Head(attendees).self
         THEN Head(attendees).responseStatus # "declined"
         ELSE SelfNotDeclined(Tail(attendees))

IsNotDeclined(raw) == SelfNotDeclined(Get(raw, "attendees", <<>>))

\* _format_attendees(attendees)
FormatAttendees(attendees) ==
    [i \in 1..Len(attendees) |->
        [email |-> attendees[i].email,
         responseStatus |-> attendees[i].responseStatus]]

\* _format_event(event) with full = False: eventType is not copied
FormatEvent(raw) ==
    [summary |-> Get(raw, "summary", <<>>),
     start |-> raw.start,
     end |-> raw.end,
     isAllDay |-> raw.start.iso = "date",
     attendees |-> FormatAttendees(Get(raw, "attendees", <<>>))]

\* list.sort / sorted with key = the start string: stable, ascending
RECURSIVE InsertByStart(_, _)
InsertByStart(sorted, e) ==
    IF sorted = <<>> THEN <<e>>
    ELSE IF IsoLessEq(Head(sorted).start, e.start)
         THEN <<Head(sorted)>> \o InsertByStart(Tail(sorted), e)
         ELSE <<e>> \o sorted

RECURSIVE SortByStart(_)
SortByStart(s) ==
    IF s = <<>> THEN <<>>
    ELSE InsertByStart(SortByStart(SubSeq(s, 1, Len(s) - 1)), s[Len(s)])

RECURSIVE SelectSeqNotDeclined(_)
SelectSeqNotDeclined(s) ==
    IF s = <<>> THEN <<>>
    ELSE IF IsNotDeclined(Head(s))
         THEN <<Head(s)>> \o SelectSeqNotDeclined(Tail(s))
         ELSE SelectSeqNotDeclined(Tail(s))

\* error_details of a calendar whose events().list() raised HttpError
HttpErrorDetails == [calendar_id |-> "primary", reason |-> "Forbidden"]

\* list_events reporting the calendars that raised HttpError under an
\* 'error' key as well
ListEventsErrorKey(items, errs, max_results) ==
    LET all_events == Slice(SortByStart(SelectSeqNotDeclined(items)),
                            max_results)
    IN  [events |-> [i \in 1..Len(all_events) |-> FormatEvent(all_events[i])],
         total |-> Len(all_events)]
        @@ (IF Len(errs) > 0
            THEN [errors |-> errs, calendars_with_errors |-> Len(errs),
                  error |-> errs[1].reason]
            ELSE EmptyDict)

\* list_events(time_min, time_max, max_results), show_declined = False:
\* items are the events of the calendars that answered, errs the
\* error_details of the calendars that raised HttpError
ListEvents(items, errs, max_results) ==
    LET all_events == Slice(SortByStart(SelectSeqNotDeclined(items)),
                            max_results)
    IN  [events |-> [i \in 1..Len(all_events) |-> FormatEvent(all_events[i])],
         total |-> Len(all_events)]
        @@ (IF Len(errs) > 0
            THEN [errors |-> errs, calendars_with_errors |-> Len(errs)]
            ELSE EmptyDict)

-----------------------------------------------------------------------------
(* Free-Interval Finder.                                                   *)

\* a datetime: minutes, and whether it carries a UTC offset
DateTime(t) == [t |-> t, aware |-> TRUE]

\* datetime + timedelta(minutes = m)
PlusMinutes(dt, m) == [t |-> dt.t + m, aware |-> dt.aware]

\* the gap filled with as many back-to-back candidates as it holds
GapSlotFill(acc, current_time, until, duration_minutes) ==
    IF until.t - current_time.t >= duration_minutes /\ duration_minutes > 0
    THEN acc \o
         [i \in 1..((until.t - current_time.t) \div duration_minutes) |->
             [start |-> PlusMinutes(current_time, (i - 1) * duration_minutes),
              end |-> PlusMinutes(current_time, i * duration_minutes)]]
    ELSE acc

\* the gap test of _find_free_slots: one candidate at the cursor when the
\* gap up to `until` holds the duration
GapSlot(acc, current_time, until, duration_minutes) ==
    IF until.t - current_time.t >= duration_minutes
    THEN Append(acc, [start |-> current_time,
                      end |-> PlusMinutes(current_time, duration_minutes)])
    ELSE acc

\* the cursor left where it is, whatever the event's end
AdvanceCursorNever(current_time, event_end) == current_time

\* the cursor set to every event's end, without the forward-only test
AdvanceCursorAlways(current_time, event_end) == event_end

\* "if event_end > current_time: current_time = event_end"
AdvanceCursor(current_time, event_end) ==
    IF event_end.t > current_time.t THEN event_end ELSE current_time

\* one iteration of the loop of _find_free_slots on the walk state st;
\* subtracting or comparing a naive and an aware datetime raises TypeError
FreeSlotStep(st, event, duration_minutes) ==
    LET event_start == FromIso(event.start)
        event_end == FromIso(event.end)
    IN  IF st.raised THEN st
        ELSE IF event_start.aware # st.current_time.aware
                \/ event_end.aware # st.current_time.aware
        THEN [raised |-> TRUE, current_time |-> st.current_time,
              slots |-> st.slots]
        ELSE [raised |-> FALSE,
              current_time |-> AdvanceCursor(st.current_time, event_end),
              slots |-> GapSlot(st.slots, st.current_time, event_start,
                                duration_minutes)]

\* the walk returned without the check of the gap after the last event
FreeSlotLastSkipped(st, end_date, duration_minutes) == st

\* "Check gap after last event"
FreeSlotLast(st, end_date, duration_minutes) ==
    IF st.raised THEN st
    ELSE IF end_date.aware # st.current_time.aware
    THEN [raised |-> TRUE, current_time |-> st.current_time,
          slots |-> st.slots]
    ELSE [raised |-> FALSE, current_time |-> st.current_time,
          slots |-> GapSlot(st.slots, st.current_time, end_date,
                            duration_minutes)]

\* the loop of _find_free_slots over the first n sorted events
RECURSIVE FreeSlotsLoop(_, _, _, _)
FreeSlotsLoop(sorted_events, n, start_date, duration_minutes) ==
    IF n = 0
    THEN [raised |-> FALSE, current_time |-> start_date, slots |-> <<>>]
    ELSE FreeSlotStep(
             FreeSlotsLoop(sorted_events, n - 1, start_date, duration_minutes),
             sorted_events[n], duration_minutes)

\* _find_free_slots(busy_events, start_date, end_date, duration_minutes)
FindFreeSlots(busy_events, start_date, end_date, duration_minutes) ==
    LET sorted_events == SortByStart(busy_events)
    IN  FreeSlotLast(
            FreeSlotsLoop(sorted_events, Len(sorted_events), start_date,
                          duration_minutes),
            end_date, duration_minutes)

-----------------------------------------------------------------------------
(* Slot Scorer.                                                            *)

\* the day bonus with the "<Day>-PM" and the "<Day>" weights both added
DayBonusBoth(cfg, slot_start) ==
    LET prefs == MeetingPrefs(cfg)
        preferred_days == Get(prefs, "preferredDays", EmptyDict)
        afternoon_start == Get(prefs, "afternoonStartHour", 12)
        day_name == DayName(slot_start.t)
        is_afternoon == Hour(slot_start.t) >= afternoon_start
    IN  (IF is_afternoon THEN Get(preferred_days, PMKey(day_name), 0) ELSE 0)
        + Get(preferred_days, day_name, 0)

\* the day-of-week bonus of _score_slot
DayBonus(cfg, slot_start) ==
    LET prefs == MeetingPrefs(cfg)
        preferred_days == Get(prefs, "preferredDays", EmptyDict)
        afternoon_start == Get(prefs, "afternoonStartHour", 12)
        day_name == DayName(slot_start.t)
        is_afternoon == Hour(slot_start.t) >= afternoon_start
    IN  IF is_afternoon
        THEN IF PMKey(day_name) \in DOMAIN preferred_days
             THEN preferred_days[PMKey(day_name)]
             ELSE IF day_name \in DOMAIN preferred_days
                  THEN preferred_days[day_name]
                  ELSE 0
        ELSE IF day_name \in DOMAIN preferred_days
             THEN preferred_days[day_name]
             ELSE 0

\* the adjacency loop of _score_slot from event i on: "hit" at the first
\* adjacent meeting, "miss" when none is, "raise" on a TypeError
RECURSIVE AdjacentScan(_, _, _)
AdjacentScan(slot, meetings, i) ==
    IF i > Len(meetings) THEN "miss"
    ELSE LET event_start == FromIso(meetings[i].start)
             event_end == FromIso(meetings[i].end)
         IN  IF slot.start.aware # event_end.aware THEN "raise"
             ELSE IF Abs(slot.start.t - event_end.t) * 60 < 300 THEN "hit"
             ELSE IF event_start.aware # slot.end.aware THEN "raise"
             ELSE IF Abs(event_start.t - slot.end.t) * 60 < 300 THEN "hit"
             ELSE AdjacentScan(slot, meetings, i + 1)

\* the adjacency bonus counted once per adjacent meeting, without the break
AdjacencyBonusPerMeeting(slot, meetings, prefer_adjacent) ==
    IF prefer_adjacent
    THEN 30 * Cardinality({i \in 1..Len(meetings) :
                  AdjacentScan(slot, <<meetings[i]>>, 1) = "hit"})
    ELSE 0

\* the adjacency bonus of _score_slot
AdjacencyBonus(slot, meetings, prefer_adjacent) ==
    IF prefer_adjacent /\ AdjacentScan(slot, meetings, 1) = "hit"
    THEN 30 ELSE 0

\* _score_slot(slot, meetings, prefer_adjacent)
ScoreSlot(cfg, slot, meetings, prefer_adjacent) ==
    [raised |-> prefer_adjacent
                /\ AdjacentScan(slot, meetings, 1) = "raise",
     score |-> 50 + DayBonus(cfg, slot.start)
                  + AdjacencyBonus(slot, meetings, prefer_adjacent)]

-----------------------------------------------------------------------------
(* Deep-Work Slot Extractor.                                               *)

\* the extractor offering each long-enough block whole
RECURSIVE FindDeepWorkSlotsWhole(_, _, _, _)
FindDeepWorkSlotsWhole(blocks, duration_minutes, usage, never_avail) ==
    IF blocks = <<>> THEN <<>>
    ELSE LET event_start == FromIso(Head(blocks).start)
             event_end == FromIso(Head(blocks).end)
             rest == FindDeepWorkSlotsWhole(Tail(blocks),
                         duration_minutes, usage, never_avail)
         IN  IF event_end.t - event_start.t < duration_minutes THEN rest
             ELSE IF usage \in {"end", "start"}
                  THEN <<[start |-> event_start, end |-> event_end]>> \o rest
             ELSE rest

\* the extractor skipping every block that is not longer than the duration
RECURSIVE FindDeepWorkSlotsLonger(_, _, _, _)
FindDeepWorkSlotsLonger(blocks, duration_minutes, usage, never_avail) ==
    IF blocks = <<>> THEN <<>>
    ELSE LET event_start == FromIso(Head(blocks).start)
             event_end == FromIso(Head(blocks).end)
             rest == FindDeepWorkSlotsLonger(Tail(blocks),
                         duration_minutes, usage, never_avail)
         IN  IF event_end.t - event_start.t <= duration_minutes THEN rest
             ELSE IF usage = "end"
                  THEN <<[start |-> PlusMinutes(event_end, 0 - duration_minutes),
                          end |-> event_end]>> \o rest
             ELSE IF usage = "start"
                  THEN <<[start |-> event_start,
                          end |-> PlusMinutes(event_start, duration_minutes)]>>
                       \o rest
             ELSE rest

\* _find_deep_work_slots(blocks, duration_minutes, usage,
\* never_avail_events); never_avail_events is not read
RECURSIVE FindDeepWorkSlots(_, _, _, _)
FindDeepWorkSlots(blocks, duration_minutes, usage, never_avail) ==
    IF blocks = <<>> THEN <<>>
    ELSE LET event_start == FromIso(Head(blocks).start)
             event_end == FromIso(Head(blocks).end)
             rest == FindDeepWorkSlots(Tail(blocks),
                         duration_minutes, usage, never_avail)
         IN  IF event_end.t - event_start.t < duration_minutes THEN rest
             ELSE IF usage = "end"
                  THEN <<[start |-> PlusMinutes(event_end, 0 - duration_minutes),
                          end |-> event_end]>> \o rest
             ELSE IF usage = "start"
                  THEN <<[start |-> event_start,
                          end |-> PlusMinutes(event_start, duration_minutes)]>>
                       \o rest
             ELSE rest

-----------------------------------------------------------------------------
(* Meeting-Time Planner: the pieces of find_meeting_times.                 *)

\* the partition with the classifier consulted before the never-available
\* patterns
RECURSIVE PartitionClassifyFirst(_, _)
PartitionClassifyFirst(cfg, evs) ==
    IF evs = <<>>
    THEN [meeting |-> <<>>, deep_work |-> <<>>, never_avail |-> <<>>]
    ELSE LET e == evs[Len(evs)]
             p == PartitionClassifyFirst(cfg, SubSeq(evs, 1, Len(evs) - 1))
         IN  IF ClassifyBlock(cfg, e) = "deep-work"
             THEN [p EXCEPT !.deep_work = Append(@, e)]
             ELSE IF IsNeverAvailable(cfg, e)
                  THEN [p EXCEPT !.never_avail = Append(@, e)]
                  ELSE [p EXCEPT !.meeting = Append(@, e)]

\* the partition loop: never-available first, then the classifier
RECURSIVE Partition(_, _)
Partition(cfg, evs) ==
    IF evs = <<>>
    THEN [meeting |-> <<>>, deep_work |-> <<>>, never_avail |-> <<>>]
    ELSE LET e == evs[Len(evs)]
             p == Partition(cfg, SubSeq(evs, 1, Len(evs) - 1))
         IN  IF IsNeverAvailable(cfg, e)
             THEN [p EXCEPT !.never_avail = Append(@, e)]
             ELSE IF ClassifyBlock(cfg, e) = "deep-work"
                  THEN [p EXCEPT !.deep_work = Append(@, e)]
                  ELSE [p EXCEPT !.meeting = Append(@, e)]

\* one tier-1 suggestion
FreeSuggestion(slot, duration_minutes, score) ==
    [start |-> slot.start, end |-> slot.end, duration |-> duration_minutes,
     type |-> "free", score |-> score,
     reason |-> [text |-> "Completely free",
                 more |-> IF score > 50 THEN " (adjacent to meetings)" ELSE ""]]

\* one tier-2 suggestion
DeepWorkSuggestion(slot, duration_minutes, usage) ==
    [start |-> slot.start, end |-> slot.end, duration |-> duration_minutes,
     type |-> "deep-work", score |-> 25,
     reason |-> [text |-> "Deep work block", more |-> usage]]

\* "for slot in free_slots[:max_suggestions * 2]"
ScoredSlots(slots, max_suggestions) == Slice(slots, max_suggestions * 2)

\* suggestions.sort(key = score, reverse = True): stable, descending
RECURSIVE InsertByScore(_, _)
InsertByScore(sorted, x) ==
    IF sorted = <<>> THEN <<x>>
    ELSE IF Head(sorted).score >= x.score
         THEN <<Head(sorted)>> \o InsertByScore(Tail(sorted), x)
         ELSE <<x>> \o sorted

RECURSIVE SortByScore(_)
SortByScore(s) ==
    IF s = <<>> THEN <<>>
    ELSE InsertByScore(SortByScore(SubSeq(s, 1, Len(s) - 1)), s[Len(s)])

\* the early return taken only with more than max_suggestions
Tier1EnoughStrict(sugg, max_suggestions) == Len(sugg) > max_suggestions

\* "if len(suggestions) >= max_suggestions"
Tier1Enough(sugg, max_suggestions) == Len(sugg) >= max_suggestions

\* the condition of TIER 2 without the avoidDeepWorkBlocks preference
Tier2AppliesWhateverAvoid(avoid_deep_work, sugg, max_suggestions, blocks) ==
    Len(sugg) < max_suggestions /\ Len(blocks) > 0

\* the condition of TIER 2 with deep_work_slots kept on the client object,
\* shared by its invocations, and tier 2 run only while it is unset
Tier2AppliesUnlessBound(avoid_deep_work, sugg, max_suggestions, blocks) ==
    /\ avoid_deep_work /\ Len(sugg) < max_suggestions /\ Len(blocks) > 0
    /\ \A c \in DOMAIN calls : "deep_work_slots" \notin calls[c].locals

\* the condition of TIER 2
Tier2Applies(avoid_deep_work, sugg, max_suggestions, blocks) ==
    avoid_deep_work /\ Len(sugg) < max_suggestions /\ Len(blocks) > 0

\* the final list sorted by score once more before the slice
FinalSuggestionsResorted(sugg, max_suggestions) ==
    Slice(SortByScore(sugg), max_suggestions)

\* the final list returned without the slice
FinalSuggestionsUncut(sugg, max_suggestions) == sugg

\* suggestions[:max_suggestions]
FinalSuggestions(sugg, max_suggestions) == Slice(sugg, max_suggestions)

\* totalFound without the tier-2 slots
TotalFoundFreeOnly(bound, slots, dw_slots) == Len(slots)

\* 'totalFound' of the final return
TotalFound(bound, slots, dw_slots) ==
    IF "deep_work_slots" \in bound THEN Len(slots) + Len(dw_slots)
    ELSE Len(slots)

\* usedDeepWork set whenever tier 2 ran
UsedDeepWorkIfRan(bound, sugg, slots) == "deep_work_slots" \in bound

\* 'usedDeepWork' of the final return
UsedDeepWork(bound, sugg, slots) ==
    IF "deep_work_slots" \in bound THEN Len(sugg) > Len(slots) ELSE FALSE

-----------------------------------------------------------------------------
(* Inputs.  The search window is Wednesday 11:45 to 12:10; event times lie *)
(* on a five-minute grid around it.                                        *)

WindowBase == 2 * 1440 + 11 * 60 + 45

At(k) == WindowBase + 5 * k

IsoDateTime(k) == [iso |-> "dateTime", t |-> At(k)]

Other == [email |-> "a@example.org", self |-> FALSE, responseStatus |-> "accepted"]

SelfDeclined == [email |-> "me@example.org", self |-> TRUE, responseStatus |-> "declined"]

\* an item of the Calendar API's events().list() with start.dateTime
Timed(summary, attendees, a, b, event_type) ==
    [summary |-> summary, start |-> IsoDateTime(a), end |-> IsoDateTime(b),
     attendees |-> attendees, eventType |-> event_type]

\* an all-day item (start.date): Wednesday, ending on Thursday's date
AllDay(summary, attendees) ==
    [summary |-> summary,
     start |-> [iso |-> "date", t |-> 2 * 1440],
     end |-> [iso |-> "date", t |-> 3 * 1440],
     attendees |-> attendees, eventType |-> "default"]

\* intervals [a, b) of the grid that overlap the window [0, 5)
Spans1 == {<<1, 2>>}
Spans2 == Spans1 \cup {<<3, 4>>}
Spans3 == Spans2 \cup {<<1, 3>>, <<0 - 1, 1>>, <<4, 6>>}
Spans4 == Spans3 \cup {<<0, 1>>}

RawItems ==
    {Timed(sSync, <<Other>>, x[1], x[2], "default") : x \in Spans4}
    \cup {Timed(sFOCUS, <<>>, x[1], x[2], "default") : x \in Spans3}
    \cup {Timed(sLunch, <<>>, x[1], x[2], "default") : x \in Spans2}
    \cup {Timed(sHoldCap, <<>>, x[1], x[2], "default") : x \in Spans1}
    \cup {Timed(sLunchHold, <<>>, 1, 2, "default"),
          Timed(sFocusLunch, <<>>, 2, 4, "default"),
          Timed(sHoldFocus, <<>>, 3, 4, "default"),
          Timed(sSync, <<>>, 2, 3, "focusTime"),
          Timed(sSync, <<SelfDeclined, Other>>, 2, 3, "default"),
          AllDay(sSync, <<Other>>),
          AllDay(sFOCUS, <<>>)}

ItemSeqs == UNION {[1..n -> RawItems] : n \in 0..MaxEvents}

PosDays == ("Wednesday" :> 40) @@ ("Wednesday-PM" :> 100)

NegDays == ("Wednesday-PM" :> (0 - 40))

LowDays == ("Wednesday" :> (0 - 40))

Configs ==
    {EmptyDict,
     [preferences |-> [meetingPreferences |->
        [neverAvailablePatterns |-> <<sLUNCH>>, preferredDays |-> PosDays,
         preferAdjacentToMeetings |-> FALSE, deepWorkBlockUsage |-> "start"]]],
     [preferences |-> [meetingPreferences |->
        [neverAvailablePatterns |-> <<sLUNCH>>, preferredDays |-> NegDays]]],
     [preferences |->
        [flexibleBlockPatterns |-> <<sHoldCap>>,
         deepWorkPatterns |-> <<sFOCUS>>,
         meetingPreferences |->
            [avoidDeepWorkBlocks |-> FALSE,
             neverAvailablePatterns |-> <<sLUNCH>>,
             preferredDays |-> PosDays, afternoonStartHour |-> 12]]],
     [preferences |->
        [flexibleBlockPatterns |-> <<>>,
         deepWorkPatterns |-> <<sFocus>>,
         meetingPreferences |->
            [neverAvailablePatterns |-> <<sLunch>>,
             deepWorkBlockUsage |-> "start", preferredDays |-> PosDays]]],
     [preferences |-> [meetingPreferences |->
        [preferAdjacentToMeetings |-> FALSE, deepWorkBlockUsage |-> "end",
         preferredDays |-> LowDays]]]}

\* the error lists of list_events: every calendar answered, or one raised
ErrorLists == {<<>>, <<HttpErrorDetails>>}

Requests ==
    [start_date : {DateTime(At(0))}, end_date : {DateTime(At(5))},
     duration_minutes : {5, 10}, max_suggestions : 1..MaxSuggestions]

-----------------------------------------------------------------------------
(* auth.py: the accounts configuration file and the token files.           *)

\* Python's None where an email is expected
None == <<"None">>

\* "not x" for an email or None
Falsy(x) == x = None \/ x = <<>>

\* "x in list"
In(x, list) == \E i \in 1..Len(list) : list[i] = x

\* list.remove(x): the list without the first occurrence of x
RECURSIVE ListRemove(_, _)
ListRemove(list, x) ==
    IF list = <<>> THEN <<>>
    ELSE IF Head(list) = x THEN Tail(list)
    ELSE <<Head(list)>> \o ListRemove(Tail(list), x)

\* str.replace(old, new) for a one-character old
RECURSIVE Replace(_, _, _)
Replace(str, old, new) ==
    IF str = <<>> THEN <<>>
    ELSE (IF Head(str) = old THEN new ELSE <<Head(str)>>)
         \o Replace(Tail(str), old, new)

\* get_token_file(account_email): the sanitized email plus ".json"
GetTokenFile(account_email) ==
    Replace(Replace(account_email, "@", <<"_", "a", "t", "_">>), ".", <<"_">>)
        \o <<".", "j", "s", "o", "n">>

\* ACCOUNTS_CONFIG_FILE does not exist
NoAccountsFile == [exists |-> FALSE]

\* no account call was made yet
NoCall == [op |-> "none"]

\* what load_accounts_config returns when there is no file
EmptyAccounts == [accounts |-> <<>>, default |-> None]

\* load_accounts_config()
LoadAccountsConfig(file) ==
    IF ~file.exists THEN EmptyAccounts ELSE file.content

\* save_accounts_config(config): the file after the write
SaveAccountsConfig(cfg) == [exists |-> TRUE, content |-> cfg]

\* set_default_account(email): the return value and the file afterwards
SetDefaultAccount(file, email) ==
    LET cfg == LoadAccountsConfig(file)
    IN  IF ~In(email, Get(cfg, "accounts", <<>>))
        THEN [ret |-> FALSE, file |-> file]
        ELSE [ret |-> TRUE,
              file |-> SaveAccountsConfig(("default" :> email) @@ cfg)]

\* add_account_to_config(email, set_as_default): the file afterwards
AddAccountToConfig(file, email, set_as_default) ==
    LET cfg == LoadAccountsConfig(file)
        added == IF ~In(email, Get(cfg, "accounts", <<>>))
                 THEN ("accounts" :> Append(Get(cfg, "accounts", <<>>), email))
                      @@ cfg
                 ELSE cfg
    IN  SaveAccountsConfig(
            IF set_as_default \/ Falsy(Get(added, "default", None))
            THEN ("default" :> email) @@ added
            ELSE added)

\* remove_account_from_config without the update of the default
RemoveAccountFromConfigKeepDefault(file, tokens, email) ==
    LET cfg == LoadAccountsConfig(file)
    IN  IF ~In(email, Get(cfg, "accounts", <<>>))
        THEN [ret |-> FALSE, file |-> file, tokens |-> tokens]
        ELSE [ret |-> TRUE,
              file |-> SaveAccountsConfig(
                           [cfg EXCEPT !.accounts = ListRemove(@, email)]),
              tokens |-> tokens \ {GetTokenFile(email)}]

\* remove_account_from_config(email): the return value, the file and the
\* token files afterwards
RemoveAccountFromConfig(file, tokens, email) ==
    LET cfg == LoadAccountsConfig(file)
    IN  IF ~In(email, Get(cfg, "accounts", <<>>))
        THEN [ret |-> FALSE, file |-> file, tokens |-> tokens]
        ELSE LET removed == [cfg EXCEPT !.accounts = ListRemove(@, email)]
                 updated ==
                     IF Get(removed, "default", None) = email
                     THEN [removed EXCEPT
                               !.default = IF removed.accounts # <<>>
                                           THEN removed.accounts[1]
                                           ELSE None]
                     ELSE removed
             IN  [ret |-> TRUE,
                  file |-> SaveAccountsConfig(updated),
                  tokens |-> tokens \ {GetTokenFile(email)}]

-----------------------------------------------------------------------------
(* find_meeting_times as a state machine: fetch -> tier1 -> tier2 -> done, *)
(* or raised when an exception leaves it.                                  *)

ClassifierIdle == cl_event = EmptyDict /\ cl_label = "none"

FinderIdle ==
    /\ ff_pc = "idle"
    /\ ff_req = EmptyDict
    /\ ff_sorted = <<>>
    /\ ff_i = 0
    /\ ff_st = EmptyDict

ScorerIdle == sc_args = EmptyDict /\ sc_ret = EmptyDict

ExtractorIdle == dw_args = EmptyDict /\ dw_ret = EmptyDict

AccountsIdle ==
    /\ accounts_file = NoAccountsFile
    /\ token_files = {}
    /\ acct_call = NoCall

OthersIdle ==
    ScorerIdle /\ ExtractorIdle /\ calls = EmptyDict /\ AccountsIdle

PlannerFresh(p, r) ==
    /\ pc = p
    /\ request = r
    /\ events = <<>>
    /\ meeting_events = <<>>
    /\ deep_work_events = <<>>
    /\ never_avail_events = <<>>
    /\ free_slots = <<>>
    /\ suggestions = <<>>
    /\ locals = {}
    /\ deep_work_slots = <<>>
    /\ result = EmptyDict
    /\ errors = <<>>

PlannerIdle == PlannerFresh("idle", EmptyDict)

Init ==
    /\ config \in Configs
    /\ \E r \in Requests : PlannerFresh("fetch", r)
    /\ ClassifierIdle
    /\ FinderIdle
    /\ OthersIdle

\* lines 645-682: read the preferences, fetch the events, partition them
Fetch ==
    /\ pc = "fetch"
    /\ \E items \in ItemSeqs :
        \E some \in {ListEvents(items, <<>>, 500)} :
        \E p \in {Partition(config, some.events)} :
        \E errs \in ErrorLists :
        \E fetched \in {ListEvents(items, errs, 500)} :
            /\ errors' = Get(fetched, "errors", <<>>)
            /\ IF "error" \in DOMAIN fetched
               THEN /\ result' = fetched
                    /\ pc' = "done"
                    /\ UNCHANGED <<events, meeting_events, deep_work_events,
                                   never_avail_events>>
               ELSE /\ events' = fetched.events
                    /\ meeting_events' = p.meeting
                    /\ deep_work_events' = p.deep_work
                    /\ never_avail_events' = p.never_avail
                    /\ pc' = "tier1"
                    /\ UNCHANGED result
    /\ UNCHANGED <<config, request, free_slots, suggestions, locals,
                   deep_work_slots, classifier_vars, finder_vars, other_vars>>

\* the scoring loop over the capped free slots
ScoreAll(cfg, slots, mtgs, prefer_adjacent, duration_minutes) ==
    [i \in 1..Len(slots) |->
        FreeSuggestion(slots[i], duration_minutes,
            ScoreSlot(cfg, slots[i], mtgs, prefer_adjacent).score)]

ScoreRaises(cfg, slots, mtgs, prefer_adjacent) ==
    \E i \in 1..Len(slots) :
        ScoreSlot(cfg, slots[i], mtgs, prefer_adjacent).raised

\* "prefer_adjacent = prefs.get('preferAdjacentToMeetings', True)"
PreferAdjacent(cfg) ==
    Get(MeetingPrefs(cfg), "preferAdjacentToMeetings", TRUE)

\* "avoid_deep_work = prefs.get('avoidDeepWorkBlocks', True)"
AvoidDeepWork(cfg) == Get(MeetingPrefs(cfg), "avoidDeepWorkBlocks", TRUE)

\* "deep_work_usage = prefs.get('deepWorkBlockUsage', 'end')"
DeepWorkUsage(cfg) == Get(MeetingPrefs(cfg), "deepWorkBlockUsage", "end")

\* lines 684-714: TIER 1, and the early return when it found enough
Tier1 ==
    /\ pc = "tier1"
    /\ \E found \in {FindFreeSlots(meeting_events \o never_avail_events,
                         request.start_date, request.end_date,
                         request.duration_minutes)} :
       \E capped \in {ScoredSlots(found.slots, request.max_suggestions)} :
       \E sorted \in {SortByScore(ScoreAll(config, capped, meeting_events,
                          PreferAdjacent(config), request.duration_minutes))} :
           IF found.raised
              \/ ScoreRaises(config, capped, meeting_events,
                             PreferAdjacent(config))
           THEN /\ pc' = "raised"
                /\ UNCHANGED <<free_slots, suggestions, result>>
           ELSE /\ free_slots' = found.slots
                /\ suggestions' = sorted
                /\ IF Tier1Enough(sorted, request.max_suggestions)
                   THEN /\ result' =
                              [suggestions |->
                                   FinalSuggestions(sorted,
                                       request.max_suggestions),
                               totalFound |-> Len(found.slots),
                               usedDeepWork |-> FALSE]
                        /\ pc' = "done"
                   ELSE /\ pc' = "tier2"
                        /\ UNCHANGED result
    /\ UNCHANGED <<config, request, events, meeting_events, deep_work_events,
                   never_avail_events, locals, deep_work_slots, errors,
                   classifier_vars, finder_vars, other_vars>>

\* lines 716-739: TIER 2 and the final return
Tier2 ==
    /\ pc = "tier2"
    /\ \E slots \in {FindDeepWorkSlots(deep_work_events,
                         request.duration_minutes, DeepWorkUsage(config),
                         never_avail_events)} :
           /\ IF Tier2Applies(AvoidDeepWork(config), suggestions,
                              request.max_suggestions, deep_work_events)
              THEN /\ deep_work_slots' = slots
                   /\ locals' = locals \cup {"deep_work_slots"}
                   /\ suggestions' = suggestions \o
                          [i \in 1..Len(slots) |->
                              DeepWorkSuggestion(slots[i],
                                  request.duration_minutes,
                                  DeepWorkUsage(config))]
              ELSE UNCHANGED <<deep_work_slots, locals, suggestions>>
           /\ result' =
                  [suggestions |->
                       FinalSuggestions(suggestions', request.max_suggestions),
                   totalFound |->
                       TotalFound(locals', free_slots, deep_work_slots'),
                   usedDeepWork |->
                       UsedDeepWork(locals', suggestions', free_slots)]
           /\ pc' = "done"
    /\ UNCHANGED <<config, request, events, meeting_events, deep_work_events,
                   never_avail_events, free_slots, errors, classifier_vars,
                   finder_vars, other_vars>>

Next == Fetch \/ Tier1 \/ Tier2

Spec == Init /\ [][Next]_vars

-----------------------------------------------------------------------------
(* find_meeting_times on requests that are not well formed: the tool       *)
(* handler passes `duration` and `days` through unchecked, so the duration *)
(* may be zero or negative and the window empty or inverted.               *)

InvalidRequests ==
    [start_date : {DateTime(At(0))}, end_date : {DateTime(At(5))},
     duration_minutes : {0, 0 - 5}, max_suggestions : 1..MaxSuggestions]
    \cup [start_date : {DateTime(At(5))},
          end_date : {DateTime(At(0)), DateTime(At(5))},
          duration_minutes : {5}, max_suggestions : 1..MaxSuggestions]

InitInvalid ==
    /\ config \in Configs
    /\ \E r \in InvalidRequests : PlannerFresh("fetch", r)
    /\ ClassifierIdle
    /\ FinderIdle
    /\ OthersIdle

SpecInvalid == InitInvalid /\ [][Next]_vars

-----------------------------------------------------------------------------
(* Two invocations of find_meeting_times on one client object, their steps *)
(* interleaved.  Each invocation holds its arguments, the event snapshot   *)
(* its fetch returns, and its local variables; self._config is the one     *)
(* object both read.                                                       *)

Invocations == {1, 2}

PairItems ==
    {Timed(sSync, <<Other>>, 1, 2, "default"),
     Timed(sFOCUS, <<>>, 3, 4, "default"),
     AllDay(sSync, <<Other>>)}

PairSnapshots == UNION {[1..n -> PairItems] : n \in 0..2}

PairConfigs ==
    {EmptyDict,
     [preferences |-> [meetingPreferences |->
        [preferAdjacentToMeetings |-> FALSE, deepWorkBlockUsage |-> "start",
         preferredDays |-> PosDays]]]}

\* an invocation at its entry
Invocation(r, items) ==
    [pc |-> "fetch", request |-> r, items |-> items, events |-> <<>>,
     meeting_events |-> <<>>, deep_work_events |-> <<>>,
     never_avail_events |-> <<>>, free_slots |-> <<>>, suggestions |-> <<>>,
     locals |-> {}, deep_work_slots |-> <<>>, result |-> EmptyDict]

\* lines 645-682 on the invocation inv
PlanFetch(cfg, inv) ==
    LET fetched == ListEvents(inv.items, <<>>, 500)
        p == Partition(cfg, fetched.events)
    IN  IF "error" \in DOMAIN fetched
        THEN [inv EXCEPT !.result = fetched, !.pc = "done"]
        ELSE [inv EXCEPT !.events = fetched.events,
                         !.meeting_events = p.meeting,
                         !.deep_work_events = p.deep_work,
                         !.never_avail_events = p.never_avail,
                         !.pc = "tier1"]

\* lines 684-714 on the invocation inv
PlanTier1(cfg, inv) ==
    LET r == inv.request
        found == FindFreeSlots(inv.meeting_events \o inv.never_avail_events,
                     r.start_date, r.end_date, r.duration_minutes)
        capped == ScoredSlots(found.slots, r.max_suggestions)
        sorted == SortByScore(ScoreAll(cfg, capped, inv.meeting_events,
                      PreferAdjacent(cfg), r.duration_minutes))
    IN  IF found.raised
           \/ ScoreRaises(cfg, capped, inv.meeting_events, PreferAdjacent(cfg))
        THEN [inv EXCEPT !.pc = "raised"]
        ELSE IF Tier1Enough(sorted, r.max_suggestions)
        THEN [inv EXCEPT !.free_slots = found.slots,
                         !.suggestions = sorted,
                         !.result =
                             [suggestions |->
                                  FinalSuggestions(sorted, r.max_suggestions),
                              totalFound |-> Len(found.slots),
                              usedDeepWork |-> FALSE],
                         !.pc = "done"]
        ELSE [inv EXCEPT !.free_slots = found.slots,
                         !.suggestions = sorted,
                         !.pc = "tier2"]

\* lines 716-739 on the invocation inv
PlanTier2(cfg, inv) ==
    LET r == inv.request
        usage == DeepWorkUsage(cfg)
        slots == FindDeepWorkSlots(inv.deep_work_events, r.duration_minutes,
                     usage, inv.never_avail_events)
        ran == Tier2Applies(AvoidDeepWork(cfg), inv.suggestions,
                   r.max_suggestions, inv.deep_work_events)
        bound == IF ran THEN inv.locals \cup {"deep_work_slots"}
                 ELSE inv.locals
        dw_slots == IF ran THEN slots ELSE inv.deep_work_slots
        sugg == IF ran
                THEN inv.suggestions \o
                     [i \in 1..Len(slots) |->
                         DeepWorkSuggestion(slots[i], r.duration_minutes,
                                            usage)]
                ELSE inv.suggestions
    IN  [inv EXCEPT !.deep_work_slots = dw_slots,
                    !.locals = bound,
                    !.suggestions = sugg,
                    !.result =
                        [suggestions |->
                             FinalSuggestions(sugg, r.max_suggestions),
                         totalFound |->
                             TotalFound(bound, inv.free_slots, dw_slots),
                         usedDeepWork |->
                             UsedDeepWork(bound, sugg, inv.free_slots)],
                    !.pc = "done"]

InitPair ==
    /\ config \in PairConfigs
    /\ PlannerIdle
    /\ ClassifierIdle
    /\ FinderIdle
    /\ ScorerIdle
    /\ ExtractorIdle
    /\ AccountsIdle
    /\ calls \in [Invocations ->
                     {Invocation(r, items) :
                          r \in Requests, items \in PairSnapshots}]

PairFetch(c) ==
    /\ calls[c].pc = "fetch"
    /\ calls' = [calls EXCEPT ![c] = PlanFetch(config, calls[c])]
    /\ UNCHANGED <<config, planner_vars, classifier_vars, finder_vars,
                   scorer_vars, extractor_vars, accounts_vars>>

PairTier1(c) ==
    /\ calls[c].pc = "tier1"
    /\ calls' = [calls EXCEPT ![c] = PlanTier1(config, calls[c])]
    /\ UNCHANGED <<config, planner_vars, classifier_vars, finder_vars,
                   scorer_vars, extractor_vars, accounts_vars>>

PairTier2(c) ==
    /\ calls[c].pc = "tier2"
    /\ calls' = [calls EXCEPT ![c] = PlanTier2(config, calls[c])]
    /\ UNCHANGED <<config, planner_vars, classifier_vars, finder_vars,
                   scorer_vars, extractor_vars, accounts_vars>>

NextPair ==
    \E c \in Invocations : PairFetch(c) \/ PairTier1(c) \/ PairTier2(c)

SpecPair == InitPair /\ [][NextPair]_vars

-----------------------------------------------------------------------------
(* _score_slot called on its own.  Its one caller passes a slot that       *)
(* _find_free_slots built and the meeting events that function has already *)
(* parsed, so the meetings carry dateTime strings.                         *)

MaxMeetings == 2

Minute(day, hour, minute) == day * 1440 + hour * 60 + minute

\* Wednesday 09:00, 11:55, 12:00, 14:00, 15:00 and Thursday 14:00
SlotStarts ==
    {Minute(2, 9, 0), Minute(2, 11, 55), Minute(2, 12, 0), Minute(2, 14, 0),
     Minute(2, 15, 0), Minute(3, 14, 0)}

SlotOf(t, d) == [start |-> DateTime(t), end |-> DateTime(t + d)]

MeetingAt(a, b) ==
    [start |-> [iso |-> "dateTime", t |-> a],
     end |-> [iso |-> "dateTime", t |-> b]]

\* meetings ending 0, 3, 5 or 10 minutes before the slot and meetings
\* starting 0, 4 or 5 minutes after it
MeetingsAround(slot) ==
    {MeetingAt(slot.start.t - g - 10, slot.start.t - g) : g \in {0, 3, 5, 10}}
    \cup {MeetingAt(slot.end.t + g, slot.end.t + g + 10) : g \in {0, 4, 5}}

ScorerConfigs ==
    {EmptyDict,
     [preferences |-> [meetingPreferences |->
        [preferredDays |-> ("Wednesday-PM" :> 100),
         afternoonStartHour |-> 12]]],
     [preferences |-> [meetingPreferences |-> [preferredDays |-> PosDays]]],
     [preferences |-> [meetingPreferences |->
        [preferredDays |-> PosDays, afternoonStartHour |-> 15]]],
     [preferences |-> [meetingPreferences |->
        [preferredDays |-> ("Wednesday" :> 40)]]],
     [preferences |-> [meetingPreferences |->
        [preferredDays |-> ("Thursday" :> 70) @@ ("Wednesday-PM" :> (0 - 40)),
         afternoonStartHour |-> 12]]]}

InitScorer ==
    /\ config \in ScorerConfigs
    /\ PlannerIdle
    /\ ClassifierIdle
    /\ FinderIdle
    /\ ExtractorIdle
    /\ calls = EmptyDict
    /\ AccountsIdle
    /\ \E t \in SlotStarts : \E slot \in {SlotOf(t, 30)} :
           sc_args \in [slot : {slot},
                        meeting_events :
                            UNION {[1..n -> MeetingsAround(slot)] :
                                       n \in 0..MaxMeetings},
                        prefer_adjacent : BOOLEAN]
    /\ sc_ret = EmptyDict

\* lines 786-829
Score ==
    /\ sc_args # EmptyDict
    /\ sc_ret = EmptyDict
    /\ sc_ret' = ScoreSlot(config, sc_args.slot, sc_args.meeting_events,
                           sc_args.prefer_adjacent)
    /\ UNCHANGED <<config, planner_vars, classifier_vars, finder_vars,
                   sc_args, extractor_vars, calls, accounts_vars>>

NextScorer == Score

SpecScorer == InitScorer /\ [][NextScorer]_vars

-----------------------------------------------------------------------------
(* _find_deep_work_slots called on its own.                                *)

MaxBlocks == 2

\* Wednesday 09:00-12:00, 09:00-09:30 and 10:00-10:20
DeepWorkBlocks ==
    {MeetingAt(Minute(2, 9, 0), Minute(2, 12, 0)),
     MeetingAt(Minute(2, 9, 0), Minute(2, 9, 30)),
     MeetingAt(Minute(2, 10, 0), Minute(2, 10, 20)),
     [start |-> [iso |-> "date", t |-> 2 * 1440],
      end |-> [iso |-> "date", t |-> 3 * 1440]]}

InitExtractor ==
    /\ config = EmptyDict
    /\ PlannerIdle
    /\ ClassifierIdle
    /\ FinderIdle
    /\ ScorerIdle
    /\ calls = EmptyDict
    /\ AccountsIdle
    /\ dw_args \in [deep_work_events :
                        UNION {[1..n -> DeepWorkBlocks] : n \in 0..MaxBlocks},
                    duration_minutes : {30, 60},
                    usage : {"end", "start", "middle"},
                    never_avail_events :
                        {<<>>,
                         <<MeetingAt(Minute(2, 11, 0), Minute(2, 12, 0))>>}]
    /\ dw_ret = EmptyDict

\* lines 831-865
Extract ==
    /\ dw_args # EmptyDict
    /\ dw_ret = EmptyDict
    /\ dw_ret' = [slots |->
                      FindDeepWorkSlots(dw_args.deep_work_events,
                          dw_args.duration_minutes, dw_args.usage,
                          dw_args.never_avail_events)]
    /\ UNCHANGED <<config, planner_vars, classifier_vars, finder_vars,
                   scorer_vars, dw_args, calls, accounts_vars>>

NextExtractor == Extract

SpecExtractor == InitExtractor /\ [][NextExtractor]_vars

-----------------------------------------------------------------------------
(* _classify_block called on its own, on events that carry an eventType    *)
(* (get_event's full format) and on events that do not.                    *)

Summaries ==
    {sSync, sHoldCap, sFOCUS, sLunch, sLunchHold, sFocusLunch, sHoldFocus,
     sFlexible, sOptional, sBuffer, sDeepWork, sBlocked, sWriting, sResearch,
     sReading}

ClassifierInputs ==
    [summary : Summaries, attendees : {<<>>, <<Other>>},
     eventType : {"default", "focusTime", "outOfOffice"}]
    \cup [summary : Summaries, attendees : {<<>>, <<Other>>}]

InitClassifier ==
    /\ config \in Configs
    /\ PlannerIdle
    /\ cl_event \in ClassifierInputs
    /\ cl_label = "none"
    /\ FinderIdle
    /\ OthersIdle

Classify ==
    /\ cl_label = "none"
    /\ cl_event # EmptyDict
    /\ cl_label' = ClassifyBlock(config, cl_event)
    /\ UNCHANGED <<config, planner_vars, cl_event, finder_vars, other_vars>>

NextClassifier == Classify

SpecClassifier == InitClassifier /\ [][NextClassifier]_vars

-----------------------------------------------------------------------------
(* _find_free_slots called on its own, one loop iteration per step, on     *)
(* busy intervals in any order.  The window is ticks 1 to MaxTick of the   *)
(* grid; busy intervals lie anywhere in ticks 0 to MaxTick + 1.            *)

BusyEvent(a, b) == [start |-> IsoDateTime(a), end |-> IsoDateTime(b)]

BusyEvents ==
    {BusyEvent(x[1], x[2]) :
        x \in {y \in (0..MaxTick) \X (1..(MaxTick + 1)) : y[1] < y[2]}}

BusySeqs == UNION {[1..n -> BusyEvents] : n \in 0..MaxBusy}

InitFinder ==
    /\ config = EmptyDict
    /\ PlannerIdle
    /\ ClassifierIdle
    /\ OthersIdle
    /\ ff_pc = "sort"
    /\ ff_req \in [busy_events : BusySeqs,
                   start_date : {DateTime(At(1))},
                   end_date : {DateTime(At(MaxTick))},
                   duration_minutes : {5, 10}]
    /\ ff_sorted = <<>>
    /\ ff_i = 0
    /\ ff_st = EmptyDict

\* lines 749-756: sort, free_slots = [], current_time = start_date
FinderSort ==
    /\ ff_pc = "sort"
    /\ ff_sorted' = SortByStart(ff_req.busy_events)
    /\ ff_st' = [raised |-> FALSE, current_time |-> ff_req.start_date,
                 slots |-> <<>>]
    /\ ff_pc' = "walk"
    /\ UNCHANGED <<config, planner_vars, classifier_vars, ff_req, ff_i,
                   other_vars>>

\* lines 759-774: one iteration of the loop
FinderStep ==
    /\ ff_pc = "walk"
    /\ ff_i < Len(ff_sorted)
    /\ ff_st' = FreeSlotStep(ff_st, ff_sorted[ff_i + 1],
                             ff_req.duration_minutes)
    /\ ff_i' = ff_i + 1
    /\ UNCHANGED <<config, planner_vars, classifier_vars, ff_pc, ff_req,
                   ff_sorted, other_vars>>

\* lines 776-784: the gap after the last event, and the return
FinderLast ==
    /\ ff_pc = "walk"
    /\ ff_i = Len(ff_sorted)
    /\ ff_st' = FreeSlotLast(ff_st, ff_req.end_date, ff_req.duration_minutes)
    /\ ff_pc' = "done"
    /\ UNCHANGED <<config, planner_vars, classifier_vars, ff_req, ff_sorted,
                   ff_i, other_vars>>

NextFinder == FinderSort \/ FinderStep \/ FinderLast

SpecFinder == InitFinder /\ [][NextFinder]_vars

-----------------------------------------------------------------------------
(* _find_free_slots on no busy interval or a single one, in a window of    *)
(* one tick or of MaxTick ticks, for durations below, at and above a tick. *)

InitFinderGaps ==
    /\ config = EmptyDict
    /\ PlannerIdle
    /\ ClassifierIdle
    /\ OthersIdle
    /\ ff_pc = "sort"
    /\ ff_req \in [busy_events : UNION {[1..n -> BusyEvents] : n \in 0..1},
                   start_date : {DateTime(At(1))},
                   end_date : {DateTime(At(2)), DateTime(At(MaxTick + 1))},
                   duration_minutes : {3, 5, 10}]
    /\ ff_sorted = <<>>
    /\ ff_i = 0
    /\ ff_st = EmptyDict

SpecFinderGaps == InitFinderGaps /\ [][NextFinder]_vars

-----------------------------------------------------------------------------
(* Properties of the planner's result.                                     *)

\* the half-open intervals [s1, e1) and [s2, e2) share a minute
Overlap(s1, e1, s2, e2) == s1 < e2 /\ s2 < e1

SlotOverlapsEvent(slot, e) ==
    Overlap(slot.start.t, slot.end.t, e.start.t, e.end.t)

Returned == pc = "done"

RanTier2 == "deep_work_slots" \in locals

HasDeepWorkCandidate(sugg) ==
    \E i \in 1..Len(sugg) : sugg[i].type = "deep-work"

\* C1: every returned candidate, free or deep-work, lies inside the search
\* window: windowStart <= start and end <= windowEnd.
C1_CandidatesInWindow ==
    Returned =>
        \A i \in 1..Len(result.suggestions) :
            /\ request.start_date.t <= result.suggestions[i].start.t
            /\ result.suggestions[i].end.t <= request.end_date.t

\* C2: no returned candidate, tier-2 candidates included, overlaps an event
\* classified as meeting or matching a never-available pattern.
C2_NoCandidateOverMeeting ==
    Returned =>
        \A i \in 1..Len(result.suggestions) : \A j \in 1..Len(events) :
            (IsNeverAvailable(config, events[j])
             \/ ClassifyBlock(config, events[j]) = "meeting")
            => ~SlotOverlapsEvent(result.suggestions[i], events[j])

C4_Tier1SufficesSkipsTier2 ==
    [][(pc = "tier1" /\ pc' # "raised"
        /\ Len(suggestions') >= request.max_suggestions)
       => /\ pc' = "done"
          /\ locals' = {}
          /\ deep_work_slots' = <<>>
          /\ result'.usedDeepWork = FALSE
          /\ ~HasDeepWorkCandidate(result'.suggestions)]_vars

\* tier 1 sufficed although deep-work avoidance is on and a deep-work event
\* long enough for the request exists
C4_Witness ==
    /\ Returned
    /\ Len(suggestions) >= request.max_suggestions
    /\ AvoidDeepWork(config)
    /\ FindDeepWorkSlots(deep_work_events, request.duration_minutes,
           DeepWorkUsage(config), never_avail_events) # <<>>
    /\ ~RanTier2

\* C5: an event whose summary matches a never-available pattern lands in
\* the never-available bucket whatever the classifier says of it: it is in
\* neither meeting_events nor deep_work_events, and as part of the
\* obstruction set it is overlapped by no free slot.
C5_NeverAvailableFirst ==
    pc \in {"tier1", "tier2", "done"} =>
        \A j \in 1..Len(events) :
            IsNeverAvailable(config, events[j]) =>
                /\ \E k \in 1..Len(never_avail_events) :
                       never_avail_events[k] = events[j]
                /\ \A k \in 1..Len(meeting_events) :
                       meeting_events[k] # events[j]
                /\ \A k \in 1..Len(deep_work_events) :
                       deep_work_events[k] # events[j]
                /\ \A k \in 1..Len(free_slots) :
                       ~SlotOverlapsEvent(free_slots[k], events[j])

\* a never-available event the classifier calls deep-work, in a run that
\* reached tier 2 and returned
C5_Witness ==
    /\ Returned
    /\ RanTier2
    /\ Len(free_slots) >= 1
    /\ \E j \in 1..Len(events) :
           /\ IsNeverAvailable(config, events[j])
           /\ ClassifyBlock(config, events[j]) = "deep-work"

FlexibleMatch(cfg, event) ==
    AnyPatternIn(Get(Get(cfg, "preferences", EmptyDict),
                     "flexibleBlockPatterns", DefaultFlexiblePatterns),
                 Lower(event.summary))

DeepWorkMatch(cfg, event) ==
    AnyPatternIn(Get(Get(cfg, "preferences", EmptyDict),
                     "deepWorkPatterns", DefaultDeepWorkPatterns),
                 Lower(event.summary))

TypeTag(event) == Get(event, "eventType", "default")

\* C6: the classifier returns the label of the first matching rule, in the
\* order focusTime, outOfOffice, flexible pattern, deep-work pattern,
\* attendees, unknown.
C6_ClassifierPriority ==
    cl_label # "none" =>
        LET tagged == TypeTag(cl_event) \in {"focusTime", "outOfOffice"}
            flex == FlexibleMatch(config, cl_event)
            deep == DeepWorkMatch(config, cl_event)
            attended == Len(cl_event.attendees) > 0
        IN  /\ TypeTag(cl_event) = "focusTime" => cl_label = "deep-work"
            /\ TypeTag(cl_event) = "outOfOffice" => cl_label = "out-of-office"
            /\ ~tagged /\ flex => cl_label = "flexible"
            /\ ~tagged /\ ~flex /\ deep => cl_label = "deep-work"
            /\ ~tagged /\ ~flex /\ ~deep /\ attended => cl_label = "meeting"
            /\ ~tagged /\ ~flex /\ ~deep /\ ~attended => cl_label = "unknown"

\* a focusTime event whose summary matches a flexible pattern, classified
C6_Witness ==
    /\ cl_label = "deep-work"
    /\ TypeTag(cl_event) = "focusTime"
    /\ FlexibleMatch(config, cl_event)

\* C7: the returned list has at most max_suggestions entries, after tier 1
\* and after tier 2.
C7_AtMostMaxSuggestions ==
    Returned => Len(result.suggestions) <= request.max_suggestions

\* tier 2 ran and the concatenated list was cut
C7_Witness ==
    /\ Returned
    /\ RanTier2
    /\ Len(suggestions) > request.max_suggestions
    /\ Len(result.suggestions) = request.max_suggestions

\* C8: the returned list is sorted by score, highest first, for every
\* day-weight map, tier-2 candidates included.
C8_SortedByScore ==
    Returned =>
        \A i, j \in 1..Len(result.suggestions) :
            i < j => result.suggestions[i].score
                         >= result.suggestions[j].score

\* C9: usedDeepWork is true exactly when a deep-work candidate is in the
\* returned, truncated list.
C9_UsedDeepWorkIffPresent ==
    Returned =>
        (result.usedDeepWork <=> HasDeepWorkCandidate(result.suggestions))

\* tier 2 ran, its candidates were appended and the list was cut
C9_Witness ==
    /\ Returned
    /\ result.usedDeepWork
    /\ Len(suggestions) > request.max_suggestions
    /\ Len(free_slots) >= 1

\* C10: totalFound is the number of free slots the finder produced, before
\* the scoring cap, plus the number of extractor slots when tier 2 ran.
C10_TotalFound ==
    Returned =>
        result.totalFound =
            Len(free_slots) + (IF RanTier2 THEN Len(deep_work_slots) ELSE 0)

\* tier 2 ran after a free slot was found and produced a slot of its own
C10_Witness ==
    /\ Returned
    /\ RanTier2
    /\ Len(free_slots) >= 1
    /\ Len(deep_work_slots) >= 1

-----------------------------------------------------------------------------
(* Failure semantics of the planner.                                       *)

ComputedKeys == {"suggestions", "totalFound", "usedDeepWork"}

\* C11: when the event fetch reported an error (a calendar's events().list()
\* raised HttpError), the planner returns the fetch's error structure and
\* nothing computed from the events of the calendars that did answer: no
\* suggestions, totalFound or usedDeepWork.
C11_FetchErrorShortCircuits ==
    (Returned /\ Len(errors) > 0) =>
        /\ DOMAIN result \cap ComputedKeys = {}
        /\ Get(result, "errors", <<>>) = errors

InvalidRequest(r) ==
    r.duration_minutes <= 0 \/ r.end_date.t <= r.start_date.t

\* C12: a request with a duration <= 0 or a window whose end is not after
\* its start is rejected with an explicit error before any interval
\* computation: tier 1 never runs on it, and the planner returns an error
\* and no candidate.
C12_InvalidRequestRejected ==
    (InvalidRequest(request) /\ pc \in {"tier2", "done", "raised"}) =>
        /\ pc = "done"
        /\ "error" \in DOMAIN result
        /\ "suggestions" \notin DOMAIN result
        /\ free_slots = <<>>
        /\ suggestions = <<>>

WellFormed(r) ==
    /\ r.duration_minutes > 0
    /\ r.start_date.t < r.end_date.t
    /\ r.max_suggestions >= 1

\* no interval of the requested length inside the window is clear of the
\* meeting and never-available events, and no deep-work event is long
\* enough to lend its start or its end
NoCandidateExists ==
    /\ \A t \in request.start_date.t
                 ..(request.end_date.t - request.duration_minutes) :
           \E j \in 1..Len(meeting_events \o never_avail_events) :
               LET e == (meeting_events \o never_avail_events)[j]
               IN  Overlap(t, t + request.duration_minutes,
                           e.start.t, e.end.t)
    /\ \A j \in 1..Len(deep_work_events) :
           deep_work_events[j].end.t - deep_work_events[j].start.t
               < request.duration_minutes

NoResult == [suggestions |-> <<>>, totalFound |-> 0, usedDeepWork |-> FALSE]

\* C13: a well-formed request for which no candidate exists ends in the
\* success value {suggestions: [], totalFound: 0, usedDeepWork: false},
\* never in an error or an exception.
C13_NoResultIsSuccess ==
    (pc \in {"done", "raised"} /\ WellFormed(request) /\ NoCandidateExists)
        => (pc = "done" /\ result = NoResult)

-----------------------------------------------------------------------------
(* Determinism and isolation of the planner.                               *)

Finished(inv) == inv.pc \in {"done", "raised"}

SameInputs(a, b) == a.request = b.request /\ a.items = b.items

-----------------------------------------------------------------------------
(* Properties of the scorer.                                               *)

Scored == sc_ret # EmptyDict /\ ~sc_ret.raised

ConfiguredDays ==
    Get(MeetingPrefs(config), "preferredDays", EmptyDict)

ConfiguredAfternoon == Get(MeetingPrefs(config), "afternoonStartHour", 12)

\* the day bonus as the claim words it
ClaimedDayBonus(t) ==
    LET day == DayName(t)
        pm == PMKey(day)
    IN  IF Hour(t) >= ConfiguredAfternoon /\ pm \in DOMAIN ConfiguredDays
        THEN ConfiguredDays[pm]
        ELSE IF day \in DOMAIN ConfiguredDays THEN ConfiguredDays[day]
        ELSE 0

\* a meeting ends less than, or at most, g minutes from the slot's start,
\* or starts that close to its end
MeetingWithin(slot, mtgs, g, strictly) ==
    \E i \in 1..Len(mtgs) :
        \/ Abs(slot.start.t - mtgs[i].end.t) < g
        \/ Abs(mtgs[i].start.t - slot.end.t) < g
        \/ ~strictly /\ Abs(slot.start.t - mtgs[i].end.t) = g
        \/ ~strictly /\ Abs(mtgs[i].start.t - slot.end.t) = g

\* C15: the score is 50 plus exactly one day bonus (the "<Day>-PM" weight
\* when the slot starts at or after afternoonStartHour and that key exists,
\* else the "<Day>" weight when that key exists, else 0), plus nothing or
\* the adjacency bonus of 30, and plus nothing when adjacency is off or no
\* meeting is given; with preferredDays {"Wednesday-PM": 100} and
\* afternoonStartHour 12 a slot starting Wednesday 14:00 scores 150 before
\* the adjacency bonus.
C15_DayBonus ==
    Scored =>
        LET t == sc_args.slot.start.t
            plain == ~sc_args.prefer_adjacent
                     \/ Len(sc_args.meeting_events) = 0
        IN  /\ sc_ret.score - ClaimedDayBonus(t) \in {50, 80}
            /\ plain => sc_ret.score = 50 + ClaimedDayBonus(t)
            /\ (/\ ConfiguredDays = ("Wednesday-PM" :> 100)
                /\ ConfiguredAfternoon = 12
                /\ t = Minute(2, 14, 0))
               => /\ sc_ret.score \in {150, 180}
                  /\ plain => sc_ret.score = 150

\* a Wednesday 14:00 slot scored under a map holding both "Wednesday" and
\* "Wednesday-PM", with afternoonStartHour 15: the PM key stays out
C15_Witness ==
    /\ Scored
    /\ sc_args.slot.start.t = Minute(2, 14, 0)
    /\ {"Wednesday", "Wednesday-PM"} \subseteq DOMAIN ConfiguredDays
    /\ ConfiguredAfternoon = 15
    /\ ~sc_args.prefer_adjacent
    /\ sc_ret.score = 90

\* C16: the adjacency bonus is 0 or 30 and nothing else: 30 when
\* preferAdjacentToMeetings is on and a meeting ends within five minutes of
\* the slot's start or starts within five minutes of its end, however many
\* do; 0 when it is off, and 0 when no meeting is that close.
C16_AdjacencyBonus ==
    Scored =>
        LET slot == sc_args.slot
            mtgs == sc_args.meeting_events
            bonus == sc_ret.score - 50 - ClaimedDayBonus(slot.start.t)
        IN  /\ bonus \in {0, 30}
            /\ (sc_args.prefer_adjacent /\ MeetingWithin(slot, mtgs, 5, TRUE))
               => bonus = 30
            /\ ~sc_args.prefer_adjacent => bonus = 0
            /\ ~MeetingWithin(slot, mtgs, 5, FALSE) => bonus = 0

\* a slot with a meeting ending at its start and another starting at its
\* end, scored with adjacency on: one bonus of 30
C16_Witness ==
    /\ Scored
    /\ sc_args.prefer_adjacent
    /\ \E i, j \in 1..Len(sc_args.meeting_events) :
           /\ sc_args.meeting_events[i].end.t = sc_args.slot.start.t
           /\ sc_args.meeting_events[j].start.t = sc_args.slot.end.t
    /\ sc_ret.score = 80 + ClaimedDayBonus(sc_args.slot.start.t)

-----------------------------------------------------------------------------
(* Properties of the deep-work slot extractor.                             *)

LongEnough(e) == e.end.t - e.start.t >= dw_args.duration_minutes

\* C17: with usage "end" or "start" the extractor returns, in the order of
\* the deep-work events, exactly one candidate for each event at least as
\* long as the duration and none for a shorter one: the last
\* duration_minutes of the event for "end", the first for "start"; each
\* candidate lies inside its event, and a too-short event raises nothing.
C17_OnePerQualifyingBlock ==
    (dw_ret # EmptyDict /\ dw_args.usage \in {"end", "start"}) =>
        LET q == SelectSeq(dw_args.deep_work_events, LongEnough)
            d == dw_args.duration_minutes
        IN  /\ Len(dw_ret.slots) = Len(q)
            /\ \A k \in 1..Len(q) :
                   /\ dw_args.usage = "end" =>
                          /\ dw_ret.slots[k].start.t = q[k].end.t - d
                          /\ dw_ret.slots[k].end.t = q[k].end.t
                   /\ dw_args.usage = "start" =>
                          /\ dw_ret.slots[k].start.t = q[k].start.t
                          /\ dw_ret.slots[k].end.t = q[k].start.t + d
                   /\ q[k].start.t <= dw_ret.slots[k].start.t
                   /\ dw_ret.slots[k].end.t <= q[k].end.t

\* the block 09:00-12:00 and a too-short block, duration 30, usage "end":
\* the one candidate is 11:30-12:00
C17_Witness ==
    /\ dw_ret # EmptyDict
    /\ dw_args.usage = "end"
    /\ dw_args.duration_minutes = 30
    /\ dw_args.deep_work_events =
           <<MeetingAt(Minute(2, 10, 0), Minute(2, 10, 20)),
             MeetingAt(Minute(2, 9, 0), Minute(2, 12, 0))>>
    /\ dw_ret.slots = <<[start |-> DateTime(Minute(2, 11, 30)),
                         end |-> DateTime(Minute(2, 12, 0))]>>

-----------------------------------------------------------------------------
(* Properties of the free-interval finder on zero and one busy interval.   *)

FinderReturned == ff_pc = "done" /\ ~ff_st.raised

CandidateAt(t) ==
    [start |-> DateTime(t), end |-> DateTime(t + ff_req.duration_minutes)]

-----------------------------------------------------------------------------
(* The classifier under a configuration without pattern keys.              *)

NoPatternKeys ==
    LET prefs == Get(config, "preferences", EmptyDict)
    IN  /\ "flexibleBlockPatterns" \notin DOMAIN prefs
        /\ "deepWorkPatterns" \notin DOMAIN prefs

Untagged == TypeTag(cl_event) \notin {"focusTime", "outOfOffice"}

ByAttendees ==
    IF Len(cl_event.attendees) > 0 THEN "meeting" ELSE "unknown"

SummaryHasOneOf(words) ==
    \E i \in 1..Len(words) : Contains(words[i], Lower(cl_event.summary))

\* C20 as stated: without flexibleBlockPatterns and deepWorkPatterns keys
\* the classifier behaves as with empty pattern lists: an event without a
\* focusTime or outOfOffice tag is classified by its attendees alone,
\* whatever its summary.
C20_MissingKeysMeanNoPatterns ==
    (cl_label # "none" /\ NoPatternKeys /\ Untagged)
        => cl_label = ByAttendees

\* C20, amended: without flexibleBlockPatterns and deepWorkPatterns keys
\* the classifier falls back on built-in lists: an untagged event whose
\* lower-cased summary contains "flexible", "optional", "buffer" or "hold"
\* is flexible; otherwise one whose summary contains "deep work", "focus",
\* "blocked", "writing", "research" or "reading" is deep-work; only an
\* event matching none of these is classified by its attendees.
C20_MissingKeysMeanBuiltInPatterns ==
    (cl_label # "none" /\ NoPatternKeys /\ Untagged) =>
        cl_label =
            IF SummaryHasOneOf(<<sFlexible, sOptional, sBuffer, sHold>>)
            THEN "flexible"
            ELSE IF SummaryHasOneOf(<<sDeepWork, sFocus, sBlocked, sWriting,
                                      sResearch, sReading>>)
            THEN "deep-work"
            ELSE ByAttendees

\* under the empty configuration an untagged event "FOCUS" with an
\* attendee is classified deep-work
C20_Witness ==
    /\ config = EmptyDict
    /\ cl_event.summary = sFOCUS
    /\ Len(cl_event.attendees) > 0
    /\ Untagged
    /\ cl_label = "deep-work"

-----------------------------------------------------------------------------
(* Shape of the returned candidates.                                       *)

\* C21: every returned candidate, free or deep-work, spans exactly the
\* requested duration_minutes, and its duration field is duration_minutes.
C21_ExactDuration ==
    Returned =>
        \A i \in 1..Len(result.suggestions) :
            /\ result.suggestions[i].end.t - result.suggestions[i].start.t
                   = request.duration_minutes
            /\ result.suggestions[i].duration = request.duration_minutes

\* a result holding a free candidate and a candidate cut from a deep-work
\* block longer than the duration
C21_Witness ==
    /\ Returned
    /\ \E i \in 1..Len(result.suggestions) :
           result.suggestions[i].type = "free"
    /\ \E i \in 1..Len(result.suggestions) :
           /\ result.suggestions[i].type = "deep-work"
           /\ \E j \in 1..Len(deep_work_events) :
                  /\ deep_work_events[j].end.t - deep_work_events[j].start.t
                         > request.duration_minutes
                  /\ deep_work_events[j].end.t = result.suggestions[i].end.t

-----------------------------------------------------------------------------
(* Deep-work blocks and the two tiers.                                     *)

\* C22: no returned candidate of type free overlaps the interval of an
\* event classified as deep-work: such time is offered by tier 2 only.
C22_FreeAvoidsDeepWork ==
    Returned =>
        \A i \in 1..Len(result.suggestions) :
            result.suggestions[i].type = "free" =>
                \A j \in 1..Len(deep_work_events) :
                    ~SlotOverlapsEvent(result.suggestions[i],
                                       deep_work_events[j])

\* the number of candidates of type ty in the list sugg
CountType(sugg, ty) ==
    Cardinality({i \in 1..Len(sugg) : sugg[i].type = ty})

\* C23: a deep-work candidate is returned only when avoidDeepWorkBlocks is
\* true, tier 1 scored fewer than max_suggestions candidates and some
\* event was classified deep-work; each such candidate has score 25; with
\* avoidDeepWorkBlocks false none is returned.
C23_DeepWorkOnlyAsFallback ==
    Returned =>
        /\ \A i \in 1..Len(result.suggestions) :
               result.suggestions[i].type = "deep-work" =>
                   /\ AvoidDeepWork(config)
                   /\ Len(ScoredSlots(free_slots, request.max_suggestions))
                          < request.max_suggestions
                   /\ Len(deep_work_events) > 0
                   /\ result.suggestions[i].score = 25
        /\ ~AvoidDeepWork(config)
               => ~HasDeepWorkCandidate(result.suggestions)

\* avoidDeepWorkBlocks is false, tier 1 found fewer slots than asked for,
\* a deep-work event long enough exists, and the planner returned free
\* candidates only
C23_Witness ==
    /\ Returned
    /\ ~AvoidDeepWork(config)
    /\ Len(free_slots) < request.max_suggestions
    /\ \E j \in 1..Len(deep_work_events) :
           deep_work_events[j].end.t - deep_work_events[j].start.t
               >= request.duration_minutes
    /\ Len(result.suggestions) < request.max_suggestions

-----------------------------------------------------------------------------
(* The reach of the adjacency bonus, the scoring cap and the reason text.  *)

\* C25: with preferAdjacentToMeetings on, the score holds the adjacency
\* bonus if and only if some meeting ends at most 5 minutes from the
\* slot's start or starts at most 5 minutes from its end; a meeting ending
\* exactly 5 minutes before the slot earns the bonus.
C25_AdjacentAtFiveMinutes ==
    (Scored /\ sc_args.prefer_adjacent) =>
        LET slot == sc_args.slot
            bonus == sc_ret.score - 50 - ClaimedDayBonus(slot.start.t)
        IN  bonus = 30
            <=> MeetingWithin(slot, sc_args.meeting_events, 5, FALSE)

\* the free slots of the finder that are not among the returned candidates
LeftOut ==
    {i \in 1..Len(free_slots) :
        \A k \in 1..Len(result.suggestions) :
            \/ result.suggestions[k].type # "free"
            \/ result.suggestions[k].start # free_slots[i].start
            \/ result.suggestions[k].end # free_slots[i].end}

\* the score the scorer gives the i-th free slot of the finder
ScoreOfFree(i) ==
    ScoreSlot(config, free_slots[i], meeting_events,
              PreferAdjacent(config)).score

\* C26: when the planner returns after tier 1, the returned candidates
\* are the best of all the free slots the finder produced: no free slot
\* left out scores strictly higher than a returned one.
C26_BestOfAllFreeSlots ==
    (Returned /\ ~RanTier2) =>
        \A i \in LeftOut :
            \A k \in 1..Len(result.suggestions) :
                result.suggestions[k].type = "free"
                    => ScoreOfFree(i) <= result.suggestions[k].score

\* C27: the reason of a free candidate mentions adjacency if and only if
\* the adjacency bonus of 30 is part of its score; a score that differs
\* from 50 by a day bonus alone reads plain "Completely free".
C27_ReasonTellsAdjacency ==
    Returned =>
        \A k \in 1..Len(result.suggestions) :
            LET s == result.suggestions[k]
                slot == [start |-> s.start, end |-> s.end]
            IN  s.type = "free" =>
                    (s.reason.more # ""
                     <=> AdjacencyBonus(slot, meeting_events,
                                        PreferAdjacent(config)) = 30)

-----------------------------------------------------------------------------
(* The order of the finder's candidates.                                   *)

\* C28: for busy intervals with start < end the candidates of
\* _find_free_slots are in strictly ascending start order and pairwise
\* disjoint: no candidate begins before the previous one ends, so no gap
\* is offered twice.
C28_CandidatesAscendingDisjoint ==
    (/\ ff_pc \in {"walk", "done"}
     /\ \A j \in 1..Len(ff_req.busy_events) :
            ff_req.busy_events[j].start.t < ff_req.busy_events[j].end.t)
    => \A i \in 1..Len(ff_st.slots) : \A k \in 1..Len(ff_st.slots) :
           i < k => /\ ff_st.slots[i].start.t < ff_st.slots[k].start.t
                    /\ ff_st.slots[i].end.t <= ff_st.slots[k].start.t

\* a finished walk over busy intervals given out of start order that
\* returned at least two candidates
C28_Witness ==
    /\ FinderReturned
    /\ Len(ff_st.slots) >= 2
    /\ Len(ff_req.busy_events) >= 2
    /\ ff_sorted # ff_req.busy_events

-----------------------------------------------------------------------------
(* A calendar that fails inside list_events.                               *)

\* C29: when a calendar's fetch fails inside list_events the failure is
\* recorded under 'errors' and never under 'error': find_meeting_times
\* does not take its error branch, goes on to tier 1 with the events of
\* the calendars that answered, and returns the computed keys and no
\* 'error' key.
C29_FailedCalendarIsSkipped ==
    /\ [][(pc = "fetch" /\ pc' # "fetch" /\ Len(errors') > 0)
          => /\ pc' = "tier1"
             /\ result' = result]_vars
    /\ []((Returned /\ Len(errors) > 0)
          => /\ "error" \notin DOMAIN result
             /\ "errors" \notin DOMAIN result
             /\ ComputedKeys \subseteq DOMAIN result)

\* the planner returned a candidate computed around a meeting of a
\* calendar that answered, while another calendar had failed
C29_Witness ==
    /\ Returned
    /\ Len(errors) > 0
    /\ Len(meeting_events) > 0
    /\ Len(result.suggestions) > 0
    /\ result.totalFound = Len(free_slots)

-----------------------------------------------------------------------------
(* The account functions of auth.py called one after another.              *)

\* the empty string and two addresses
Emails ==
    {<<>>,
     <<"a", "@", "x", ".", "y">>,
     <<"b", "@", "x", ".", "y">>}

InitAccounts ==
    /\ config = EmptyDict
    /\ PlannerIdle
    /\ ClassifierIdle
    /\ FinderIdle
    /\ ScorerIdle
    /\ ExtractorIdle
    /\ calls = EmptyDict
    /\ accounts_file \in {NoAccountsFile, SaveAccountsConfig(EmptyAccounts)}
    /\ token_files \in SUBSET {GetTokenFile(e) : e \in Emails}
    /\ acct_call = NoCall

\* lines 100-107
AddAccount ==
    /\ \E email \in Emails : \E set_as_default \in BOOLEAN :
           /\ accounts_file' =
                  AddAccountToConfig(accounts_file, email, set_as_default)
           /\ acct_call' = [op |-> "add_account_to_config", email |-> email,
                            set_as_default |-> set_as_default]
    /\ UNCHANGED <<config, planner_vars, classifier_vars, finder_vars,
                   scorer_vars, extractor_vars, calls, token_files>>

\* lines 110-133
RemoveAccount ==
    /\ \E email \in Emails :
       \E r \in {RemoveAccountFromConfig(accounts_file, token_files, email)} :
           /\ accounts_file' = r.file
           /\ token_files' = r.tokens
           /\ acct_call' = [op |-> "remove_account_from_config",
                            email |-> email, ret |-> r.ret]
    /\ UNCHANGED <<config, planner_vars, classifier_vars, finder_vars,
                   scorer_vars, extractor_vars, calls>>

\* lines 83-97
SetDefault ==
    /\ \E email \in Emails :
       \E r \in {SetDefaultAccount(accounts_file, email)} :
           /\ accounts_file' = r.file
           /\ acct_call' = [op |-> "set_default_account",
                            email |-> email, ret |-> r.ret]
    /\ UNCHANGED <<config, planner_vars, classifier_vars, finder_vars,
                   scorer_vars, extractor_vars, calls, token_files>>

NextAccounts == AddAccount \/ RemoveAccount \/ SetDefault

SpecAccounts == InitAccounts /\ [][NextAccounts]_vars

\* what get_configured_accounts and get_default_account read
ConfiguredAccounts == Get(LoadAccountsConfig(accounts_file), "accounts", <<>>)

DefaultAccount == Get(LoadAccountsConfig(accounts_file), "default", None)

\* C30: from the empty configuration, after any sequence of
\* add_account_to_config, remove_account_from_config and
\* set_default_account calls, the default is None exactly when the accounts
\* list is empty and otherwise one of its members; no email is listed
\* twice; and a remove or set-default call for an email not in the list
\* returns False and leaves the configuration as it was.
C30_AccountsConsistent ==
    /\ [](/\ DefaultAccount = None <=> ConfiguredAccounts = <<>>
          /\ ConfiguredAccounts # <<>>
                 => In(DefaultAccount, ConfiguredAccounts)
          /\ \A i, j \in 1..Len(ConfiguredAccounts) :
                 ConfiguredAccounts[i] = ConfiguredAccounts[j] => i = j)
    /\ [][(/\ acct_call'.op \in {"remove_account_from_config",
                                  "set_default_account"}
           /\ ~In(acct_call'.email, ConfiguredAccounts))
          => /\ acct_call'.ret = FALSE
             /\ accounts_file' = accounts_file
             /\ token_files' = token_files]_vars

\* an account was removed and its token file is gone, two others stay and
\* the first of them is the default
C30_Witness ==
    /\ acct_call.op = "remove_account_from_config"
    /\ acct_call.ret
    /\ Len(ConfiguredAccounts) = 2
    /\ DefaultAccount = ConfiguredAccounts[1]
    /\ GetTokenFile(acct_call.email) \notin token_files

====
